---- MODULE Spec2Model ----
(***************************************************************************)
(* Model of exp3/BCI_raw.py: windowing (create_segments), dataset assembly *)
(* (load_eeg_data, load_all_subjects) and the leave-one-subject-out loop   *)
(* (EnhancedBCIClassifier, leave_one_subject_out_validation), the summary  *)
(* of main, and the feature extraction of one window by FeatureExtractor   *)
(* and by EEGFeatureExtractor of exp3/feature_extractor.py.                *)
(*                                                                         *)
(* A recording is abstracted to its number of samples; a window to the     *)
(* index of its first sample; a feature row to the window it was computed  *)
(* from plus its number of columns.  The scaler, the selector and the MLP  *)
(* are opaque collaborators: their fitted state is the set of rows they    *)
(* were fitted on, and predict may return any label vector over {0, 1}.    *)
(***************************************************************************)
EXTENDS Integers, Sequences, FiniteSets, TLC

\* ---------------------------------------------------------------- Config
SAMPLING_RATE == 500
SEGMENT_LENGTH == 5
\* OVERLAP_RATIO = 0.5, kept as the fraction OVERLAP_NUM / OVERLAP_DEN
OVERLAP_NUM == 1
OVERLAP_DEN == 2
N_FEATURES_SELECT == 11
\* segments[70:-80]
TRIM_HEAD == 70
TRIM_TAIL == 80
\* length of the list y built by FeatureExtractor.extract_features
N_ENGINEERED == 13

\* ---------------------------------------------------------------- bounds
MaxSubjects == 3
MaxWin == 1
MaxN == 156
MaxL == 2
MaxIter == 160
ExtraSelect == 5

\* ---------------------------------------------------------------- helpers
Min(a, b) == IF a < b THEN a ELSE b
Max(a, b) == IF a > b THEN a ELSE b
Range(s) == {s[i] : i \in 1..Len(s)}

RECURSIVE Concat(_)
\* np.vstack / np.hstack of a list of blocks
Concat(blocks) ==
  IF blocks = <<>> THEN <<>> ELSE Head(blocks) \o Concat(Tail(blocks))

RECURSIVE SortedSeq_Desc(_)
\* mutant of SortedSeq: the keys in descending order
SortedSeq_Desc(S) ==
  IF S = {} THEN <<>>
  ELSE LET m == CHOOSE x \in S : \A z \in S : x >= z
       IN <<m>> \o SortedSeq_Desc(S \ {m})

RECURSIVE SortedSeq(_)
\* sorted(...) of a collection of distinct keys
SortedSeq(S) ==
  IF S = {} THEN <<>>
  ELSE LET m == CHOOSE x \in S : \A z \in S : x <= z
       IN <<m>> \o SortedSeq(S \ {m})

\* s[start:stop] of Python, negative indices counted from the end
PySlice(s, start, stop) ==
  LET n == Len(s)
      norm(i) == IF i < 0 THEN Max(n + i, 0) ELSE Min(i, n)
  IN SubSeq(s, norm(start) + 1, norm(stop))

\* int(x * num / den) for non-negative operands
IntMul(x, num, den) == (x * num) \div den

\* ---------------------------------------------------------------- state
VARIABLES
  pc,             \* position of main / leave_one_subject_out_validation
  cfg,            \* Config attributes that vary between runs
  subject_folders,\* sorted(glob(...))
  idx,            \* position of the for loop of load_all_subjects
  files,          \* the two files of the folder the for loop is working on
  all_features, all_labels, all_subjects,
  X, y, subjects, \* the triple returned by load_all_subjects
  unique_subjects,
  fold,           \* position of the for loop over unique_subjects
  train_mask, test_mask,
  classifier,     \* the EnhancedBCIClassifier of the current fold
  nCreated,       \* number of EnhancedBCIClassifier objects constructed
  results,
  sRatio,         \* OVERLAP_RATIO of a create_segments call, <<num, den>>
  sN, sL, sOv,    \* create_segments: len(data), segment_length_samples, overlap_samples
  sStart, sSegments, sPc, sRet,
  summary,        \* what main computes from the returned results
  fPc,            \* position of a feature-extraction call on one window
  fBin,           \* index of the frequency bin the call looks at
  fPower,         \* whether the window holds power at that bin
  fExc,           \* feature functions of EEGFeatureExtractor that raise on the window
  fOut            \* what the call returned

vars == <<pc, cfg, subject_folders, idx, files, all_features, all_labels,
          all_subjects, X, y, subjects, unique_subjects, fold, train_mask,
          test_mask, classifier, nCreated, results,
          sRatio, sN, sL, sOv, sStart, sSegments, sPc, sRet,
          summary, fPc, fBin, fPower, fExc, fOut>>

loadVars == <<subject_folders, idx, files, all_features, all_labels, all_subjects>>
dataVars == <<X, y, subjects>>
foldVars == <<unique_subjects, fold, train_mask, test_mask, classifier,
              nCreated, results, summary>>
segVars  == <<sRatio, sN, sL, sOv, sStart, sSegments, sPc, sRet>>
featVars == <<fPc, fBin, fPower, fExc, fOut>>

\* Python's None, and a bound value
None == [isNone |-> TRUE]
Some(v) == [isNone |-> FALSE, val |-> v]

\* ---------------------------------------------------------------- windowing
\* the list `segments` when the while loop of create_segments exits, for
\* n >= len and a positive step: the starts 0, step, 2*step, ... of every
\* window with start + len <= n  (the loop itself is SegEnter/SegIterate below)
SegLoop(n, len, step) ==
  [k \in 1..((n - len) \div step + 1) |-> (k - 1) * step]

\* create_segments(data, segment_length_samples, overlap_samples), len(data) = n,
\* for a positive step
create_segments(n, len, ov) ==
  IF n < len THEN <<>>
  ELSE PySlice(SegLoop(n, len, len - ov), TRIM_HEAD, 0 - TRIM_TAIL)

segment_length_samples == SEGMENT_LENGTH * SAMPLING_RATE
overlap_samples == IntMul(segment_length_samples, OVERLAP_NUM, OVERLAP_DEN)

\* length of a recording that holds exactly w windows before trimming
LenOf(w) == segment_length_samples + (w - 1) * (segment_length_samples - overlap_samples)

\* ---------------------------------------------------------------- recordings
\* a file is absent/unparsable, or holds n samples
Missing == [kind |-> "missing"]
Samples(n) == [kind |-> "samples", n |-> n]
RecLens == {1, segment_length_samples}
           \cup {LenOf(TRIM_HEAD + TRIM_TAIL + w) : w \in 1..MaxWin}
RecChoices == {Missing} \cup {Samples(n) : n \in RecLens}

\* np.loadtxt: raises on a missing file, squeezes a one-value file to a 0-d
\* array, returns a 1-D array otherwise
loadtxt(rec) ==
  IF rec.kind = "missing" THEN [kind |-> "raise"]
  ELSE IF rec.n = 1 THEN [kind |-> "scalar"]
  ELSE [kind |-> "array", len |-> rec.n]

\* load_eeg_data(subject_path): (relax_data, focus_data) or (None, None)
load_eeg_data(f) ==
  LET r == loadtxt(f.relax)
      c == loadtxt(f.focus)
  IN IF r.kind = "raise" \/ c.kind = "raise"
     THEN <<None, None>>
     ELSE <<r, c>>

\* one row of a subject's feature block: filtered samples hstack engineered features
FeatureRow(subj, src, start) ==
  [subj |-> subj, src |-> src, start |-> start,
   cols |-> segment_length_samples + N_ENGINEERED]

FeatureRows(subj, src, segs) ==
  [i \in 1..Len(segs) |-> FeatureRow(subj, src, segs[i])]

Labels(n, v) == [i \in 1..n |-> v]

\* ---------------------------------------------------------------- load_all_subjects
\* Config as the source sets it
ShippedConfig == [nsel |-> N_FEATURES_SELECT, fsel |-> TRUE]

\* Config values a run may be started with once the block is edited
Configs ==
  {c \in [nsel : {N_FEATURES_SELECT, segment_length_samples + ExtraSelect},
          fsel : BOOLEAN] : c.fsel \/ c.nsel = N_FEATURES_SELECT}

NoClassifier == None
NoResults == [accuracies |-> <<>>, confusion_matrices |-> <<>>,
              loss_curves |-> <<>>, subject_names |-> <<>>]

SegIdle ==
  /\ sRatio = <<OVERLAP_NUM, OVERLAP_DEN>>
  /\ sN = 0 /\ sL = 0 /\ sOv = 0 /\ sStart = 0
  /\ sSegments = <<>> /\ sPc = "idle" /\ sRet = None

PipelineIdle ==
  /\ pc = "start"
  /\ subject_folders = <<>>
  /\ idx = 0
  /\ files = None
  /\ all_features = <<>> /\ all_labels = <<>> /\ all_subjects = <<>>
  /\ X = Some(<<>>) /\ y = Some(<<>>) /\ subjects = Some(<<>>)
  /\ unique_subjects = <<>>
  /\ fold = 0
  /\ train_mask = <<>> /\ test_mask = <<>>
  /\ classifier = NoClassifier
  /\ nCreated = 0
  /\ results = None
  /\ summary = None

FeatIdle ==
  /\ fPc = "idle" /\ fBin = 0 /\ fPower = FALSE /\ fExc = {} /\ fOut = None

Init ==
  /\ PipelineIdle
  /\ cfg = ShippedConfig
  /\ SegIdle
  /\ FeatIdle

\* the same run started with an edited Config
InitCfg ==
  /\ PipelineIdle
  /\ cfg \in Configs
  /\ SegIdle
  /\ FeatIdle

\* subject_folders = sorted(glob(...)); no folder: return None, None, None
LoadGlob ==
  /\ pc = "start"
  /\ \E n \in 0..MaxSubjects :
       /\ subject_folders' = SortedSeq(1..n)
       /\ IF n = 0
          THEN /\ X' = None /\ y' = None /\ subjects' = None
               /\ pc' = "loaded"
          ELSE /\ UNCHANGED dataVars
               /\ pc' = "loading"
  /\ idx' = 1
  /\ UNCHANGED <<cfg, files, all_features, all_labels, all_subjects>>
  /\ UNCHANGED foldVars
  /\ UNCHANGED segVars
  /\ UNCHANGED featVars

\* mutant of SubjectBlock: relax labelled 1 and focus labelled 0
SubjectBlock_Swapped(subject_id, relax_segments, focus_segments) ==
  LET relax_features == FeatureRows(subject_id, "relax", relax_segments)
      focus_features == FeatureRows(subject_id, "focus", focus_segments)
      subject_labels == Labels(Len(relax_features), 1) \o Labels(Len(focus_features), 0)
  IN [features |-> relax_features \o focus_features,
      labels   |-> subject_labels,
      ids      |-> Labels(Len(subject_labels), subject_id)]

\* the feature block, the labels and the ids one subject adds
SubjectBlock(subject_id, relax_segments, focus_segments) ==
  LET relax_features == FeatureRows(subject_id, "relax", relax_segments)
      focus_features == FeatureRows(subject_id, "focus", focus_segments)
      relax_labels == Labels(Len(relax_features), 0)
      focus_labels == Labels(Len(focus_features), 1)
      subject_labels == relax_labels \o focus_labels
  IN [features |-> relax_features \o focus_features,
      labels   |-> subject_labels,
      ids      |-> Labels(Len(subject_labels), subject_id)]

\* mutant of SubjectOutcome: a subject is skipped only when both recordings
\* yield zero windows
SubjectOutcome_SkipIfBoth(subject_id, f) ==
  LET data == load_eeg_data(f)
      relax_data == data[1]
      focus_data == data[2]
  IN IF relax_data = None \/ focus_data = None
     THEN [kind |-> "skip"]
     ELSE IF relax_data.kind = "scalar" \/ focus_data.kind = "scalar"
     THEN [kind |-> "raise"]
     ELSE LET relax_segments ==
                create_segments(relax_data.len, segment_length_samples, overlap_samples)
              focus_segments ==
                create_segments(focus_data.len, segment_length_samples, overlap_samples)
          IN IF Len(relax_segments) = 0 /\ Len(focus_segments) = 0
             THEN [kind |-> "skip"]
             ELSE [kind |-> "append",
                   block |-> SubjectBlock(subject_id, relax_segments, focus_segments)]

\* what one pass of the for loop does with the folder's two files:
\* "skip" (continue), "raise" (uncaught exception) or "append"
SubjectOutcome(subject_id, f) ==
  LET data == load_eeg_data(f)
      relax_data == data[1]
      focus_data == data[2]
  IN IF relax_data = None \/ focus_data = None
     THEN [kind |-> "skip"]
     ELSE IF relax_data.kind = "scalar" \/ focus_data.kind = "scalar"
     THEN [kind |-> "raise"]      \* len() of a 0-d array in create_segments
     ELSE LET relax_segments ==
                create_segments(relax_data.len, segment_length_samples, overlap_samples)
              focus_segments ==
                create_segments(focus_data.len, segment_length_samples, overlap_samples)
          IN IF Len(relax_segments) = 0 \/ Len(focus_segments) = 0
             THEN [kind |-> "skip"]
             ELSE [kind |-> "append",
                   block |-> SubjectBlock(subject_id, relax_segments, focus_segments)]

\* one iteration of `for subject_folder in subject_folders`
LoadSubject ==
  /\ pc = "loading"
  /\ idx <= Len(subject_folders)
  /\ \E relax \in RecChoices, focus \in RecChoices :
       LET subject_id == subject_folders[idx]
           f == [relax |-> relax, focus |-> focus]
           out == SubjectOutcome(subject_id, f)
       IN /\ files' = f
          /\ IF out.kind = "raise"
             THEN /\ pc' = "crashed"
                  /\ UNCHANGED <<idx, all_features, all_labels, all_subjects>>
             ELSE /\ pc' = pc
                  /\ idx' = idx + 1
                  /\ IF out.kind = "append"
                     THEN /\ all_features' = Append(all_features, out.block.features)
                          /\ all_labels' = Append(all_labels, out.block.labels)
                          /\ all_subjects' = all_subjects \o out.block.ids
                     ELSE UNCHANGED <<all_features, all_labels, all_subjects>>
  /\ UNCHANGED <<cfg, subject_folders>>
  /\ UNCHANGED dataVars
  /\ UNCHANGED foldVars
  /\ UNCHANGED segVars
  /\ UNCHANGED featVars

\* after the loop: the no-data sentinel, or the stacked triple
LoadReturn ==
  /\ pc = "loading"
  /\ idx > Len(subject_folders)
  /\ IF all_features = <<>>
     THEN X' = None /\ y' = None /\ subjects' = None
     ELSE /\ X' = Some(Concat(all_features))
          /\ y' = Some(Concat(all_labels))
          /\ subjects' = Some(all_subjects)
  /\ pc' = "loaded"
  /\ files' = None
  /\ UNCHANGED <<cfg, subject_folders, idx, all_features, all_labels, all_subjects>>
  /\ UNCHANGED foldVars
  /\ UNCHANGED segVars
  /\ UNCHANGED featVars

\* ---------------------------------------------------------------- EnhancedBCIClassifier
RECURSIVE MaskFrom(_, _, _)
MaskFrom(a, mask, i) ==
  IF i > Len(a) THEN <<>>
  ELSE (IF mask[i] THEN <<a[i]>> ELSE <<>>) \o MaskFrom(a, mask, i + 1)

\* a[mask]: boolean-mask indexing of numpy
Masked(a, mask) == MaskFrom(a, mask, 1)

\* k_features of __init__
k_features(c) == Min(c.nsel, SAMPLING_RATE * SEGMENT_LENGTH)

\* EnhancedBCIClassifier(): unfitted scaler, selector (or None) and model
NewClassifier(inst, c) ==
  [inst             |-> inst,
   scaler           |-> [fit |-> None],
   feature_selector |-> IF c.fsel THEN [k |-> k_features(c), fit |-> None] ELSE None,
   model            |-> [fit |-> None, classes |-> {}]]

\* fit(X, y): scaler.fit_transform, feature_selector.fit_transform, model.fit
Fitted(clf, X_train, y_train) ==
  [clf EXCEPT
     !.scaler = [fit |-> Some(Range(X_train))],
     !.feature_selector =
        IF clf.feature_selector = None THEN None
        ELSE [k |-> clf.feature_selector.k, fit |-> Some(Range(X_train))],
     !.model = [fit |-> Some(Range(X_train)), classes |-> Range(y_train)]]

\* predict(X): the label vectors the fitted model may return for X
Predictions(clf, X_test) == [1..Len(X_test) -> clf.model.classes]

\* ---------------------------------------------------------------- metrics
Count(S) == Cardinality(S)

\* accuracy_score(y_true, y_pred) as <<correct, total>>
accuracy_score(y_true, yp) ==
  <<Count({i \in 1..Len(y_true) : y_true[i] = yp[i]}), Len(y_true)>>

\* mutant of confusion_matrix: rows predicted, columns actual
confusion_matrix_Transposed(y_true, yp) ==
  LET cell(a, p) == Count({i \in 1..Len(y_true) : y_true[i] = a /\ yp[i] = p})
  IN <<<<cell(0, 0), cell(1, 0)>>, <<cell(0, 1), cell(1, 1)>>>>

\* confusion_matrix(y_true, y_pred, labels=[0, 1]): rows actual, columns predicted
confusion_matrix(y_true, yp) ==
  LET cell(a, p) == Count({i \in 1..Len(y_true) : y_true[i] = a /\ yp[i] = p})
  IN <<<<cell(0, 0), cell(0, 1)>>, <<cell(1, 0), cell(1, 1)>>>>

\* ---------------------------------------------------------------- leave_one_subject_out_validation
\* mutant of LosoStart: the `if X is None: return None` is missing
LosoStart_NoCheck ==
  /\ pc = "loaded"
  /\ unique_subjects' = (IF X = None THEN <<>> ELSE SortedSeq(Range(subjects.val)))
  /\ results' = NoResults
  /\ fold' = 1
  /\ pc' = "split"
  /\ UNCHANGED <<cfg, train_mask, test_mask, classifier, nCreated, summary>>
  /\ UNCHANGED loadVars
  /\ UNCHANGED dataVars
  /\ UNCHANGED segVars
  /\ UNCHANGED featVars

\* X, y, subjects = load_all_subjects(); return None on the sentinel
LosoStart ==
  /\ pc = "loaded"
  /\ IF X = None
     THEN /\ pc' = "returned_none"
          /\ UNCHANGED <<unique_subjects, fold, results>>
     ELSE /\ unique_subjects' = SortedSeq(Range(subjects.val))
          /\ results' = NoResults
          /\ fold' = 1
          /\ pc' = "split"
  /\ UNCHANGED <<cfg, train_mask, test_mask, classifier, nCreated, summary>>
  /\ UNCHANGED loadVars
  /\ UNCHANGED dataVars
  /\ UNCHANGED segVars
  /\ UNCHANGED featVars

\* mutant of TrainMask: every row is a training row
TrainMask_All(subj, test_subject) == [i \in 1..Len(subj) |-> TRUE]

TrainMask(subj, test_subject) == [i \in 1..Len(subj) |-> subj[i] # test_subject]
TestMask(subj, test_subject) == [i \in 1..Len(subj) |-> subj[i] = test_subject]

\* train_mask / test_mask of the fold's held-out subject
FoldSplit ==
  /\ pc = "split"
  /\ fold <= Len(unique_subjects)
  /\ train_mask' = TrainMask(subjects.val, unique_subjects[fold])
  /\ test_mask' = TestMask(subjects.val, unique_subjects[fold])
  /\ pc' = "train"
  /\ UNCHANGED <<cfg, unique_subjects, fold, classifier, nCreated, results, summary>>
  /\ UNCHANGED loadVars
  /\ UNCHANGED dataVars
  /\ UNCHANGED segVars
  /\ UNCHANGED featVars

\* classifier = EnhancedBCIClassifier(); classifier.fit(X_train, y_train)
\* (StandardScaler raises on an array of zero rows)
FoldTrain ==
  /\ pc = "train"
  /\ LET X_train == Masked(X.val, train_mask)
         y_train == Masked(y.val, train_mask)
         fresh == NewClassifier(nCreated + 1, cfg)
     IN /\ nCreated' = nCreated + 1
        /\ IF Len(X_train) = 0
           THEN /\ classifier' = fresh
                /\ pc' = "crashed"
           ELSE /\ classifier' = Fitted(fresh, X_train, y_train)
                /\ pc' = "predict"
  /\ UNCHANGED <<cfg, unique_subjects, fold, train_mask, test_mask, results, summary>>
  /\ UNCHANGED loadVars
  /\ UNCHANGED dataVars
  /\ UNCHANGED segVars
  /\ UNCHANGED featVars

\* the four appends that close a fold
Recorded(res, accuracy, cm, loss_curve, test_subject) ==
  [accuracies         |-> Append(res.accuracies, accuracy),
   confusion_matrices |-> Append(res.confusion_matrices, cm),
   loss_curves        |-> Append(res.loss_curves, loss_curve),
   subject_names      |-> Append(res.subject_names, test_subject)]

\* mutant of AfterPredict: predict refits the scaler on the rows it is given
AfterPredict_Refit(clf, X_test) ==
  [clf EXCEPT !.scaler = [fit |-> Some(Range(X_test))]]

\* predict(X) after the call: transform only, the fitted state is as before
AfterPredict(clf, X_test) == clf

\* get_loss_curve(): the loss curve of this classifier's model
get_loss_curve(clf) == [inst |-> clf.inst]

\* y_pred = classifier.predict(X_test); accuracy, confusion matrix, store
\* results; then the next subject, or `return results` after the last one
FoldEvaluate ==
  /\ pc = "predict"
  /\ LET X_test == Masked(X.val, test_mask)
         y_test == Masked(y.val, test_mask)
     IN /\ \E y_pred \in Predictions(classifier, X_test) :
             results' = Recorded(results, accuracy_score(y_test, y_pred),
                                 confusion_matrix(y_test, y_pred),
                                 get_loss_curve(classifier),
                                 unique_subjects[fold])
        /\ classifier' = AfterPredict(classifier, X_test)
  /\ fold' = fold + 1
  /\ pc' = IF fold < Len(unique_subjects) THEN "split" ELSE "returned"
  /\ UNCHANGED <<cfg, unique_subjects, train_mask, test_mask, nCreated, summary>>
  /\ UNCHANGED loadVars
  /\ UNCHANGED dataVars
  /\ UNCHANGED segVars
  /\ UNCHANGED featVars

\* ---------------------------------------------------------------- main
RECURSIVE SumCm(_)
\* np.sum(results['confusion_matrices'], axis=0) of a non-empty list
SumCm(cms) ==
  IF Len(cms) = 1 THEN Head(cms)
  ELSE LET a == Head(cms)
           b == SumCm(Tail(cms))
       IN <<<<a[1][1] + b[1][1], a[1][2] + b[1][2]>>,
            <<a[2][1] + b[2][1], a[2][2] + b[2][2]>>>>

\* a reported rate: a quotient, the literal 0, or what numpy gives for x / 0
Quotient(n, d) == [kind |-> "quotient", num |-> n, den |-> d]
Literal0 == [kind |-> "0"]
NanOrInf == [kind |-> "nan_or_inf"]

\* mutant of GuardedRate: the division without its guard
GuardedRate_Unguarded(n, d) == IF d = 0 THEN NanOrInf ELSE Quotient(n, d)

\* n / d if d > 0 else 0
GuardedRate(n, d) == IF d > 0 THEN Quotient(n, d) ELSE Literal0

\* the overall results main computes from the returned results
Summarised(res) ==
  LET total_cm == SumCm(res.confusion_matrices)
  IN [mean_accuracy           |-> [mean_of |-> res.accuracies],
      std_accuracy            |-> [std_of |-> res.accuracies],
      total_cm                |-> total_cm,
      relax_accuracy          |-> GuardedRate(total_cm[1][1], total_cm[1][1] + total_cm[1][2]),
      concentration_accuracy  |-> GuardedRate(total_cm[2][2], total_cm[2][1] + total_cm[2][2]),
      relax_precision         |-> GuardedRate(total_cm[1][1], total_cm[1][1] + total_cm[2][1]),
      concentration_precision |-> GuardedRate(total_cm[2][2], total_cm[1][2] + total_cm[2][2])]

\* main after leave_one_subject_out_validation returned results (when it
\* returned None, main prints "Validation failed!" and returns: the run stays
\* at "returned_none"): mean and std of the accuracies, the summed confusion
\* matrix, recall and precision of each class
Aggregate ==
  /\ pc = "returned"
  /\ summary' = Some(Summarised(results))
  /\ pc' = "aggregated"
  /\ UNCHANGED <<cfg, unique_subjects, fold, train_mask, test_mask, classifier,
                 nCreated, results>>
  /\ UNCHANGED loadVars
  /\ UNCHANGED dataVars
  /\ UNCHANGED segVars
  /\ UNCHANGED featVars

Next ==
  \/ LoadGlob
  \/ LoadSubject
  \/ LoadReturn
  \/ LosoStart
  \/ FoldSplit
  \/ FoldTrain
  \/ FoldEvaluate
  \/ Aggregate

Spec == Init /\ [][Next]_vars

SpecCfg == InitCfg /\ [][Next]_vars

\* the run as the interpreter executes it: single-threaded, every statement
\* that can run does run, so a step that is possible is eventually taken
SpecFair == Init /\ [][Next]_vars /\ WF_vars(Next)

\* ---------------------------------------------------------------- create_segments, step by step
\* overlap ratios a run may be configured with, as <<num, den>>
Ratios == {<<0, 1>>, <<1, 2>>, <<4, 5>>, <<1, 1>>, <<3, 2>>}

\* a call create_segments(data, segment_length_samples, overlap_samples) as
\* load_all_subjects makes it: overlap_samples = int(segment_length_samples * OVERLAP_RATIO)
InitSeg ==
  /\ PipelineIdle
  /\ cfg = ShippedConfig
  /\ sRatio \in Ratios
  /\ sN \in 0..MaxN
  /\ sL \in 1..MaxL
  /\ sOv = IntMul(sL, sRatio[1], sRatio[2])
  /\ sStart = 0
  /\ sSegments = <<>>
  /\ sPc = "call"
  /\ sRet = None
  /\ FeatIdle

pipelineVars == <<pc, cfg, subject_folders, idx, files, all_features, all_labels,
                  all_subjects, X, y, subjects, unique_subjects, fold, train_mask,
                  test_mask, classifier, nCreated, results, summary>>

\* if len(data) < segment_length_samples: return np.array([]); else start = 0
SegEnter ==
  /\ sPc = "call"
  /\ IF sN < sL
     THEN /\ sRet' = Some(<<>>)
          /\ sPc' = "returned"
     ELSE /\ sRet' = sRet
          /\ sPc' = "loop"
  /\ sStart' = 0
  /\ sSegments' = <<>>
  /\ UNCHANGED <<sRatio, sN, sL, sOv>>
  /\ UNCHANGED pipelineVars
  /\ UNCHANGED featVars

\* one pass of `while start + segment_length_samples <= len(data)`
SegIterate ==
  /\ sPc = "loop"
  /\ sStart + sL <= sN
  /\ Len(sSegments) < MaxIter
  /\ sSegments' = Append(sSegments, sStart)
  /\ sStart' = sStart + (sL - sOv)
  /\ UNCHANGED <<sRatio, sN, sL, sOv, sPc, sRet>>
  /\ UNCHANGED pipelineVars
  /\ UNCHANGED featVars

\* return np.array(segments[70:-80])
SegReturn ==
  /\ sPc = "loop"
  /\ ~(sStart + sL <= sN)
  /\ sRet' = Some(PySlice(sSegments, TRIM_HEAD, 0 - TRIM_TAIL))
  /\ sPc' = "returned"
  /\ UNCHANGED <<sRatio, sN, sL, sOv, sStart, sSegments>>
  /\ UNCHANGED pipelineVars
  /\ UNCHANGED featVars

NextSeg ==
  \/ SegEnter
  \/ SegIterate
  \/ SegReturn

SpecSeg == InitSeg /\ [][NextSeg]_vars

\* the operator create_segments used by load_all_subjects agrees with the loop
SegAgrees ==
  (sPc = "returned" /\ sOv < sL) => sRet = Some(create_segments(sN, sL, sOv))

\* ---------------------------------------------------------------- FeatureExtractor (BCI_raw.py)
\* nperseg = min(len(x), 512) of the two welch calls
WELCH_NPERSEG == 512

\* self.bands, band edges in units of 0.5 Hz: (0.5, 4) is <<1, 8>>
bands ==
  [delta |-> <<1, 8>>, theta |-> <<8, 16>>, alpha |-> <<16, 26>>,
   beta |-> <<26, 60>>, gamma |-> <<60, 90>>]

\* self.bands.keys(): the insertion order of the dict
band_keys == <<"delta", "theta", "alpha", "beta", "gamma">>

\* bin k of a spectrum of n points at rate fs has frequency k * fs / n Hz;
\* its comparisons with an edge v given in units of 0.5 Hz
FreqGe(k, fs, n, v) == 2 * k * fs >= v * n
FreqLt(k, fs, n, v) == 2 * k * fs < v * n
FreqLe(k, fs, n, v) == 2 * k * fs <= v * n

\* len(f) of welch(x, fs, nperseg) for a window of segment_length_samples
nperseg == Min(segment_length_samples, WELCH_NPERSEG)

\* idx[k] of _bandpower for one band: np.logical_and(f >= lo, f < hi)
bandpower_idx(k, band) ==
  /\ FreqGe(k, SAMPLING_RATE, nperseg, band[1])
  /\ FreqLt(k, SAMPLING_RATE, nperseg, band[2])

\* _bandpower: the bands whose power bin k of f contributes to
bandpower(k) == {name \in DOMAIN bands : bandpower_idx(k, bands[name])}

\* _build_feature_names
feature_names ==
  [i \in 1..Len(band_keys) |-> <<"bp", band_keys[i], "abs">>]
  \o [i \in 1..Len(band_keys) |-> <<"bp", band_keys[i], "rel">>]
  \o << <<"ratio_alpha_theta">>, <<"ratio_beta_alpha">> >>
  \o << <<"hj_activity">>, <<"hj_mobility">>, <<"hj_complexity">> >>
  \o << <<"mean">>, <<"std">>, <<"skew">>, <<"kurtosis">>, <<"rms">>, <<"zcr">> >>
  \o << <<"spectral_entropy">> >>

\* the list feats of extract_features, each entry named by the quantity it holds
feats ==
  [i \in 1..Len(band_keys) |-> <<"bp", band_keys[i], "abs">>]
  \o [i \in 1..Len(band_keys) |-> <<"bp", band_keys[i], "rel">>]
  \o << <<"ratio_alpha_theta">> >>
  \o << <<"ratio_beta_alpha">> >>
  \o << <<"hj_activity">>, <<"hj_mobility">>, <<"hj_complexity">> >>
  \o << <<"mean">>, <<"std">>, <<"skew">>, <<"kurtosis">>, <<"rms">>, <<"zcr">> >>
  \o << <<"spectral_entropy">> >>

\* extract_features(segment): the array it returns is built from the list y,
\* not from feats; each entry named by the quantity it holds
extract_features ==
  << <<"alpha/(alpha+beta+theta)">>, <<"beta/(alpha+theta)">>, <<"alpha/(beta+theta)">>,
     <<"hj_activity">>, <<"hj_mobility">>, <<"hj_complexity">>,
     <<"mean">>, <<"std">>, <<"skew">>, <<"kurtosis">>, <<"rms">>, <<"zcr">>,
     <<"spectral_entropy">> >>

\* np.hstack([filtered, features]) for one window: the filtered segment's
\* samples followed by the entries of extract_features
hstack_row(segment_len, features) ==
  [cols |-> segment_len + Len(features), fields |-> features]

\* ---------------------------------------------------------------- EEGFeatureExtractor (feature_extractor.py)
\* sampling_rate=500 and segment_length=5, the defaults of
\* load_eeg_data_with_features
FE_SAMPLING_RATE == 500
FE_SEGMENT_LENGTH == 5

\* self.freq_bands, band edges in units of 0.5 Hz
freq_bands ==
  [delta |-> <<1, 8>>, theta |-> <<8, 16>>, alpha |-> <<16, 26>>,
   beta |-> <<26, 60>>, gamma |-> <<60, 100>>]

\* len(signal) of a window cut by load_eeg_data_with_features
fe_segment_length_samples == FE_SEGMENT_LENGTH * FE_SAMPLING_RATE

\* band_mask[k] of _calculate_band_power for the non-negative frequencies
\* of fftfreq: (freqs >= freq_band[0]) & (freqs <= freq_band[1])
band_mask(k, freq_band) ==
  /\ FreqGe(k, FE_SAMPLING_RATE, fe_segment_length_samples, freq_band[1])
  /\ FreqLe(k, FE_SAMPLING_RATE, fe_segment_length_samples, freq_band[2])

\* _calculate_band_power of a window whose spectrum holds power at bin k
\* (power) or nowhere: 1 when that bin is summed, 0 otherwise
calculate_band_power(k, power, freq_band) ==
  IF power /\ band_mask(k, freq_band) THEN 1 ELSE 0

\* extract_band_powers: the power of every band of freq_bands
extract_band_powers(k, power) ==
  [name \in DOMAIN freq_bands |-> calculate_band_power(k, power, freq_bands[name])]

\* the feature functions that catch an exception and return a fallback
FeatureFunctions == {"attention", "relaxation", "statistical", "frequency", "ratios"}

\* a feature value: the fallback or guard value 0.0, or a computed number
Zero == "0.0"
Computed == "computed"

\* extract_attention_feature: beta / (alpha + theta)
extract_attention_feature(k, power, exc) ==
  LET p == extract_band_powers(k, power)
  IN IF "attention" \in exc THEN Zero
     ELSE IF p.alpha + p.theta = 0 THEN Zero
     ELSE Computed

\* extract_relaxation_feature: alpha / (theta + alpha + beta)
extract_relaxation_feature(k, power, exc) ==
  LET p == extract_band_powers(k, power)
  IN IF "relaxation" \in exc THEN Zero
     ELSE IF p.theta + p.alpha + p.beta = 0 THEN Zero
     ELSE Computed

stat_keys ==
  {"mean", "std", "var", "skewness", "kurtosis", "rms", "peak_to_peak",
   "zero_crossing_rate", "energy", "power"}

\* mutant of extract_statistical_features: the fallback leaves out two keys
extract_statistical_features_ShortFallback(exc) ==
  IF "statistical" \in exc
  THEN [key \in stat_keys \ {"energy", "power"} |-> Zero]
  ELSE [key \in stat_keys |-> Computed]

\* extract_statistical_features: the ten statistics, or 0.0 for each of them
extract_statistical_features(exc) ==
  IF "statistical" \in exc
  THEN [key \in stat_keys |-> Zero]
  ELSE [key \in stat_keys |-> Computed]

freq_keys ==
  {"spectral_centroid", "spectral_rolloff", "spectral_bandwidth", "spectral_flatness"}

\* extract_frequency_features: the four spectral features, or 0.0 for each
extract_frequency_features(power, exc) ==
  IF "frequency" \in exc
  THEN [key \in freq_keys |-> Zero]
  ELSE [key \in freq_keys |->
          IF key = "spectral_flatness" /\ ~power THEN Zero ELSE Computed]

ratio_keys ==
  {"delta_ratio", "theta_ratio", "alpha_ratio", "beta_ratio", "gamma_ratio",
   "beta_alpha_ratio", "theta_alpha_ratio", "beta_theta_ratio"}

\* extract_band_ratios: the eight ratios; 0.0 for each when the total power
\* is zero or on an exception, 0 for a ratio whose denominator band is empty
extract_band_ratios(k, power, exc) ==
  LET p == extract_band_powers(k, power)
      total_power == p.delta + p.theta + p.alpha + p.beta + p.gamma
  IN IF "ratios" \in exc THEN [key \in ratio_keys |-> Zero]
     ELSE IF total_power = 0 THEN [key \in ratio_keys |-> Zero]
     ELSE [key \in ratio_keys |->
             IF key \in {"beta_alpha_ratio", "theta_alpha_ratio"} /\ ~(p.alpha > 0)
             THEN Zero
             ELSE IF key = "beta_theta_ratio" /\ ~(p.theta > 0) THEN Zero
             ELSE Computed]

\* extract_all_features: {'attention', 'relaxation', **stat, **freq, **ratio}
\* (a later entry of a dict display replaces an earlier one of the same key)
extract_all_features(k, power, exc) ==
  extract_band_ratios(k, power, exc)
  @@ extract_frequency_features(power, exc)
  @@ extract_statistical_features(exc)
  @@ [key \in {"relaxation"} |-> extract_relaxation_feature(k, power, exc)]
  @@ [key \in {"attention"} |-> extract_attention_feature(k, power, exc)]

\* the order sorted() gives the keys of extract_all_features (code-point order)
key_order ==
  <<"alpha_ratio", "attention", "beta_alpha_ratio", "beta_ratio",
    "beta_theta_ratio", "delta_ratio", "energy", "gamma_ratio", "kurtosis",
    "mean", "peak_to_peak", "power", "relaxation", "rms", "skewness",
    "spectral_bandwidth", "spectral_centroid", "spectral_flatness",
    "spectral_rolloff", "std", "theta_alpha_ratio", "theta_ratio", "var",
    "zero_crossing_rate">>

\* sorted(features.keys())
sorted_keys(features) ==
  LET present(key) == key \in DOMAIN features
  IN SelectSeq(key_order, present)

\* feature_array = [features[key] for key in sorted(features.keys())],
\* each entry kept with the key it came from
feature_array(features) ==
  LET keys == sorted_keys(features)
  IN [i \in 1..Len(keys) |-> [key |-> keys[i], val |-> features[keys[i]]]]

\* ---------------------------------------------------------------- feature extraction of one window
MaxBin == 256

\* one window: the bin its spectrum is looked at, whether it holds power
\* there, and the feature functions that raise on it
InitFeat ==
  /\ PipelineIdle
  /\ cfg = ShippedConfig
  /\ SegIdle
  /\ fPc = "call"
  /\ fBin \in 0..MaxBin
  /\ fPower \in BOOLEAN
  /\ fExc \in SUBSET FeatureFunctions
  /\ fOut = None

\* FeatureExtractor._bandpower on the window (bin fBin of the welch spectrum)
Bandpower ==
  /\ fPc = "call"
  /\ fBin <= nperseg \div 2
  /\ fOut' = [fn |-> "_bandpower", contributes |-> bandpower(fBin)]
  /\ fPc' = "done"
  /\ UNCHANGED <<fBin, fPower, fExc>>
  /\ UNCHANGED pipelineVars
  /\ UNCHANGED segVars

\* fe.extract_features(seg) and the hstack with the filtered segment
ExtractFeatures ==
  /\ fPc = "call"
  /\ fOut' = [fn |-> "extract_features",
              row |-> hstack_row(segment_length_samples, extract_features)]
  /\ fPc' = "done"
  /\ UNCHANGED <<fBin, fPower, fExc>>
  /\ UNCHANGED pipelineVars
  /\ UNCHANGED segVars

\* EEGFeatureExtractor.extract_band_powers on the window (bin fBin of the FFT)
ExtractBandPowers ==
  /\ fPc = "call"
  /\ 2 * fBin < fe_segment_length_samples
  /\ fOut' = [fn |-> "extract_band_powers",
              contributes |-> {name \in DOMAIN freq_bands :
                                 band_mask(fBin, freq_bands[name])},
              band_powers |-> extract_band_powers(fBin, fPower)]
  /\ fPc' = "done"
  /\ UNCHANGED <<fBin, fPower, fExc>>
  /\ UNCHANGED pipelineVars
  /\ UNCHANGED segVars

\* features = extractor.extract_all_features(segment) and its flattening
ExtractAllFeatures ==
  /\ fPc = "call"
  /\ 2 * fBin < fe_segment_length_samples
  /\ LET features == extract_all_features(fBin, fPower, fExc)
     IN fOut' = [fn |-> "extract_all_features",
                 features |-> features,
                 feature_array |-> feature_array(features)]
  /\ fPc' = "done"
  /\ UNCHANGED <<fBin, fPower, fExc>>
  /\ UNCHANGED pipelineVars
  /\ UNCHANGED segVars

NextFeat ==
  \/ Bandpower
  \/ ExtractFeatures
  \/ ExtractBandPowers
  \/ ExtractAllFeatures

SpecFeat == InitFeat /\ [][NextFeat]_vars

\* ---------------------------------------------------------------- properties
HeldOut == unique_subjects[fold]
InFold == pc \in {"train", "predict"}
RowsOf(subj) == {i \in 1..Len(X.val) : X.val[i].subj = subj}
RowsOfSrc(subj, src) == {i \in RowsOf(subj) : X.val[i].src = src}
RowSum(cm, a) == cm[a][1] + cm[a][2]
CmTotal(cm) == RowSum(cm, 1) + RowSum(cm, 2)

RECURSIVE SumTotals(_)
SumTotals(cms) == IF cms = <<>> THEN 0 ELSE CmTotal(Head(cms)) + SumTotals(Tail(cms))

\* C1: in every fold every test row belongs to the held-out subject, no
\* training row does, every row is in exactly one of train/test, and the
\* subject ids of the two parts are disjoint and together are all subject ids.
C1_LosoLeakage ==
  InFold =>
    LET n == Len(subjects.val)
        trainIds == {subjects.val[i] : i \in {j \in 1..n : train_mask[j]}}
        testIds == {subjects.val[i] : i \in {j \in 1..n : test_mask[j]}}
    IN /\ Len(train_mask) = n /\ Len(test_mask) = n
       /\ \A i \in 1..n : test_mask[i] => subjects.val[i] = HeldOut
       /\ \A i \in 1..n : train_mask[i] => subjects.val[i] # HeldOut
       /\ \A i \in 1..n : train_mask[i] # test_mask[i]
       /\ trainIds \cap testIds = {}
       /\ trainIds \cup testIds = Range(subjects.val)
       /\ \A r \in Range(Masked(X.val, test_mask)) : r.subj = HeldOut
       /\ \A r \in Range(Masked(X.val, train_mask)) : r.subj # HeldOut

C1_Witness ==
  /\ pc = "predict"
  /\ fold = 2
  /\ Len(unique_subjects) = 3
  /\ Len(Masked(X.val, train_mask)) = 4
  /\ Len(Masked(X.val, test_mask)) = 2

\* C3: the classifier that predicts in a fold is the one constructed in that
\* fold, its scaler, selector and model are fitted on exactly that fold's
\* training rows, the evaluation step leaves the classifier as fit left it,
\* and each recorded loss curve is the one of its own fold's classifier.
C3_FoldLocalState ==
  LET trainRows == Range(Masked(X.val, train_mask))
  IN pc = "predict" =>
       /\ classifier.inst = fold
       /\ nCreated = fold
       /\ classifier.scaler.fit = Some(trainRows)
       /\ classifier.feature_selector # None =>
            classifier.feature_selector.fit = Some(trainRows)
       /\ classifier.model.fit = Some(trainRows)
       /\ \A r \in trainRows : r.subj # HeldOut
       /\ \A i \in 1..Len(results.loss_curves) : results.loss_curves[i].inst = i

C3_FoldLocal ==
  /\ [](C3_FoldLocalState)
  /\ [][pc = "predict" => classifier' = classifier]_vars

C3_Witness ==
  /\ pc = "split"
  /\ fold = 3
  /\ nCreated = 2
  /\ classifier # None
  /\ classifier.inst = 2
  /\ classifier.feature_selector # None
  /\ Len(results.loss_curves) = 2

\* C4: (after each fold is recorded and at the return) every recorded confusion matrix has row 0 summing to the held-out
\* subject's relax windows and row 1 to its focus windows (so its total is the
\* subject's test windows), and once all folds are recorded the totals of all
\* matrices add up to the number of rows of the dataset.
C4_ConfusionSums ==
  (pc \in {"split", "returned"} /\ results # None) =>
    /\ \A i \in 1..Len(results.confusion_matrices) :
         LET cm == results.confusion_matrices[i]
             s == unique_subjects[i]
         IN /\ RowSum(cm, 1) = Cardinality(RowsOfSrc(s, "relax"))
            /\ RowSum(cm, 2) = Cardinality(RowsOfSrc(s, "focus"))
            /\ CmTotal(cm) = Cardinality(RowsOf(s))
    /\ pc = "returned" => SumTotals(results.confusion_matrices) = Len(X.val)

C4_Witness ==
  /\ pc = "returned"
  /\ Len(results.confusion_matrices) = 3
  /\ \E i \in 1..3 : results.confusion_matrices[i][1][2] = 1
  /\ \E i \in 1..3 : results.confusion_matrices[i][2][1] = 1

\* C5: returned results hold one entry per distinct subject id of the dataset,
\* in ascending order; the four lists have equal length and index i of each
\* belongs to the same held-out subject; a subject without rows is never held out.
C5_ResultsPerSubject ==
  pc = "returned" =>
    LET names == results.subject_names
        n == Len(names)
    IN /\ Range(names) = Range(subjects.val)
       /\ \A i \in 1..n : \A j \in 1..n : i < j => names[i] < names[j]
       /\ Len(results.accuracies) = n
       /\ Len(results.confusion_matrices) = n
       /\ Len(results.loss_curves) = n
       /\ \A i \in 1..n :
            /\ RowsOf(names[i]) # {}
            /\ results.accuracies[i][2] = Cardinality(RowsOf(names[i]))
            /\ CmTotal(results.confusion_matrices[i]) = Cardinality(RowsOf(names[i]))
            /\ results.accuracies[i][1] =
                 results.confusion_matrices[i][1][1] + results.confusion_matrices[i][2][2]
            /\ results.loss_curves[i].inst = i

\* subject 2 of three folders was skipped and the run returned
C5_Witness ==
  /\ pc = "returned"
  /\ Len(subject_folders) = 3
  /\ results.subject_names = <<1, 3>>

\* C6: when load_all_subjects returns data, X, y and subject ids have equal length; each row's label
\* is 0 for a relax window and 1 for a focus window; each row's subject id is
\* the folder that produced it; the subjects' blocks are in sorted folder order.
C6_DatasetAligned ==
  (pc = "loaded" /\ X # None) =>
    LET n == Len(X.val)
    IN /\ Len(y.val) = n
       /\ Len(subjects.val) = n
       /\ \A i \in 1..n :
            /\ y.val[i] = (IF X.val[i].src = "relax" THEN 0 ELSE 1)
            /\ subjects.val[i] = X.val[i].subj
            /\ subjects.val[i] \in Range(subject_folders)
       /\ \A i \in 1..(n - 1) : subjects.val[i] <= subjects.val[i + 1]

C6_Witness ==
  /\ pc = "loaded"
  /\ X # None
  /\ Len(X.val) = 4
  /\ y.val = <<0, 1, 0, 1>>
  /\ subjects.val = <<1, 1, 3, 3>>

\* the windows signal[k*stride : k*stride+L], k = 0, 1, ..., that fit in N samples
AllWindows(n, len, stride) ==
  IF n < len THEN <<>>
  ELSE [k \in 1..((n - len) \div stride + 1) |-> (k - 1) * stride]

\* C2: for an overlap ratio in [0, 1), create_segments returns exactly the
\* windows signal[k*stride : k*stride+L], k = 0, 1, ...: floor((N-L)/stride)+1
\* of them when N >= L, none when N < L.
C2_AllWindowsReturned ==
  (sPc = "returned" /\ sRatio[1] < sRatio[2]) =>
    sRet = Some(AllWindows(sN, sL, sL - sOv))

\* a recording yields zero windows: create_segments of its samples is empty
ZeroWindows(rec) ==
  /\ rec.kind = "samples"
  /\ Len(create_segments(rec.n, segment_length_samples, overlap_samples)) = 0

Unusable(f) ==
  \/ f.relax.kind = "missing" \/ f.focus.kind = "missing"
  \/ ZeroWindows(f.relax) \/ ZeroWindows(f.focus)

\* C7: a pass of the loading loop over a subject whose files cannot be loaded,
\* or whose relax or focus recording yields zero windows, adds nothing to the
\* features, labels and subject ids and goes on to the next folder.
C7_SkipIsolated ==
  [][(pc = "loading" /\ idx <= Len(subject_folders) /\ files' # None
        /\ Unusable(files'))
       => /\ pc' = "loading"
          /\ idx' = idx + 1
          /\ UNCHANGED <<all_features, all_labels, all_subjects>>]_vars

\* load_all_subjects has returned, or the run is past it
LoadOver == pc \notin {"start", "loading"} /\ ~(pc = "crashed" /\ nCreated = 0)

\* C8: when load_all_subjects is over with no folder found or every subject
\* skipped, it has returned (None, None, None), and the validation returns
\* None without a fold: no split, no classifier, no results.
C8_NoDataSentinel ==
  (LoadOver /\ all_features = <<>>) =>
    /\ X = None /\ y = None /\ subjects = None
    /\ pc \in {"loaded", "returned_none"}
    /\ results = None
    /\ classifier = None
    /\ nCreated = 0
    /\ fold = 0
    /\ train_mask = <<>> /\ test_mask = <<>>

\* three folders, every subject skipped, validation returned None
C8_Witness ==
  /\ pc = "returned_none"
  /\ Len(subject_folders) = 3
  /\ idx = 4
  /\ X = None

\* C9: the segmentation loop never runs with a non-positive step: an overlap
\* ratio >= 1 is rejected before any window is generated.
C9_StepPositive ==
  sPc = "loop" => (sRatio[1] < sRatio[2] /\ sL - sOv > 0)

\* C10: with feature selection enabled, the selector of every fold keeps
\* k = min(N_FEATURES_SELECT, number of columns of X) columns.
C10_SelectorK ==
  (pc = "predict" /\ cfg.fsel) =>
    classifier.feature_selector.k = Min(cfg.nsel, X.val[1].cols)

\* the keys of a flattened feature vector, column by column
ColumnKeys(arr) == [i \in 1..Len(arr) |-> arr[i].key]

\* C11: under one configuration every window gives a feature vector of the
\* same dimension with the same field at the same column, whatever the
\* signal holds: a BCI_raw row has segment_length_samples + 13 columns and the
\* same 13 fields; the mapping of extract_all_features has the same key set
\* and the same sorted-key columns as that of a silent window on which no
\* function raises, also when a feature function takes its exception fallback.
C11_ConstantDimension ==
  fPc = "done" =>
    /\ fOut.fn = "extract_features" =>
         /\ fOut.row.cols = segment_length_samples + 13
         /\ Len(fOut.row.fields) = 13
         /\ fOut.row.fields = hstack_row(segment_length_samples, extract_features).fields
    /\ fOut.fn = "extract_all_features" =>
         LET reference == extract_all_features(0, FALSE, {})
         IN /\ DOMAIN fOut.features = DOMAIN reference
            /\ Len(fOut.feature_array) = Len(feature_array(reference))
            /\ ColumnKeys(fOut.feature_array) = ColumnKeys(feature_array(reference))
            /\ Len(fOut.feature_array) = Cardinality(DOMAIN fOut.features)

\* a window with power at 10 Hz on which the statistical and the ratio
\* functions raised, flattened to 24 columns
C11_Witness ==
  /\ fPc = "done"
  /\ fOut.fn = "extract_all_features"
  /\ fBin = 50
  /\ fPower
  /\ fExc = {"statistical", "ratios"}
  /\ Len(fOut.feature_array) = 24
  /\ fOut.features["mean"] = Zero
  /\ fOut.features["alpha_ratio"] = Zero
  /\ fOut.features["attention"] = Computed

\* C12: the vector extract_features returns has the documented field order
\* (5 absolute and 5 relative band powers, alpha/theta, beta/alpha, 3 Hjorth
\* parameters, 6 time-domain statistics, spectral entropy): its length and
\* the quantity at each index are those of feature_names.
C12_DocumentedOrder ==
  (fPc = "done" /\ fOut.fn = "extract_features") =>
    /\ Len(fOut.row.fields) = Len(feature_names)
    /\ \A i \in 1..Len(feature_names) : fOut.row.fields[i] = feature_names[i]

\* sum of cell (a, p) over the recorded confusion matrices
RECURSIVE CellSum(_, _, _)
CellSum(cms, a, p) ==
  IF cms = <<>> THEN 0 ELSE Head(cms)[a][p] + CellSum(Tail(cms), a, p)

\* the rate the summary must report for a diagonal cell and a row or column sum
RateOf(diag, sum) == IF sum = 0 THEN Literal0 ELSE Quotient(diag, sum)

\* C13: in the aggregate summary the summed confusion matrix is the cell-wise
\* sum of the folds' matrices, the recall of a class is its diagonal cell over
\* its row sum and its precision the diagonal cell over its column sum, and
\* when a row sum or column sum is zero the reported value is 0: never an
\* error, never the result of a division by zero.
C13_GuardedRates ==
  pc = "aggregated" =>
    /\ summary # None
    /\ LET s == summary.val
           t == s.total_cm
           cms == results.confusion_matrices
       IN /\ \A a \in 1..2 : \A p \in 1..2 : t[a][p] = CellSum(cms, a, p)
          /\ s.relax_accuracy = RateOf(t[1][1], t[1][1] + t[1][2])
          /\ s.concentration_accuracy = RateOf(t[2][2], t[2][1] + t[2][2])
          /\ s.relax_precision = RateOf(t[1][1], t[1][1] + t[2][1])
          /\ s.concentration_precision = RateOf(t[2][2], t[1][2] + t[2][2])
          /\ \A v \in {s.relax_accuracy, s.concentration_accuracy,
                       s.relax_precision, s.concentration_precision} :
               /\ v # NanOrInf
               /\ v.kind = "quotient" => (v.den > 0 /\ v.num <= v.den)

\* three folds, focus never predicted in any of them: the column sum of class
\* 1 is zero and its precision is reported as 0
C13_Witness ==
  /\ pc = "aggregated"
  /\ Len(results.confusion_matrices) = 3
  /\ summary.val.total_cm = <<<<3, 0>>, <<3, 0>>>>
  /\ summary.val.concentration_precision = Literal0
  /\ summary.val.relax_precision = Quotient(3, 6)
  /\ summary.val.concentration_accuracy = Quotient(0, 3)

\* the loop over unique_subjects has been entered
FoldsBegun == pc \in {"split", "train", "predict", "returned", "aggregated"}

\* what holds in every state of an ordered run
C14_OrderState ==
  /\ FoldsBegun =>
       /\ idx > Len(subject_folders)
       /\ X # None /\ y # None /\ subjects # None
       /\ X.val = Concat(all_features)
       /\ fold >= 1
  /\ pc \in {"start", "loading", "loaded", "returned_none"} =>
       (fold = 0 /\ nCreated = 0 /\ results = None /\ classifier = None)
  /\ pc = "split" => Len(results.subject_names) = fold - 1
  /\ pc = "train" => Len(results.subject_names) = fold - 1
  /\ pc = "predict" =>
       /\ classifier.model.fit # None
       /\ classifier.scaler.fit # None
       /\ Len(results.subject_names) = fold - 1
  /\ summary # None =>
       /\ pc = "aggregated"
       /\ Len(results.subject_names) = Len(unique_subjects)
       /\ results.subject_names = unique_subjects

\* what holds of every step of an ordered run
C14_OrderStep ==
  /\ <<pc, pc'>> \in
       {<<"start", "loading">>, <<"start", "loaded">>, <<"loading", "loading">>,
        <<"loading", "loaded">>, <<"loading", "crashed">>,
        <<"loaded", "split">>, <<"loaded", "returned_none">>,
        <<"split", "train">>, <<"train", "predict">>, <<"train", "crashed">>,
        <<"predict", "split">>, <<"predict", "returned">>,
        <<"returned", "aggregated">>}
  /\ FoldsBegun => UNCHANGED dataVars
  /\ results' # results => (pc = "loaded" \/ pc = "predict")
  /\ (pc = "predict" /\ pc' = "split") =>
       Len(results'.subject_names) = Len(results.subject_names) + 1
  /\ summary' # summary => (pc = "returned" /\ pc' = "aggregated")

\* a run whose dataset was loaded reaches Aggregated
C14_EventuallyAggregated ==
  (pc = "loaded" /\ X # None) ~> (pc = "aggregated")

\* C14: the run goes NotStarted -> (per subject: Preparing -> Training ->
\* Evaluating) -> Aggregated: no fold starts before load_all_subjects has
\* returned the complete dataset, which no fold changes; in a fold fit is
\* complete before predict; a fold's result is recorded before the next
\* fold's split; the aggregation happens only after every subject's fold is
\* recorded; and a run that has a dataset eventually reaches Aggregated.
C14_RunOrder ==
  /\ [](C14_OrderState)
  /\ [][C14_OrderStep]_vars
  /\ C14_EventuallyAggregated

\* the ordering alone, without the progress part of C14
C14_OrderOnly ==
  /\ [](C14_OrderState)
  /\ [][C14_OrderStep]_vars

\* lo <= f < hi for bin k of a spectrum of n points at rate fs, band edges in
\* units of 0.5 Hz
HalfOpen(k, fs, n, band) == band[1] * n <= 2 * k * fs /\ 2 * k * fs < band[2] * n

\* bin k lies exactly on an edge shared by two bands: 4, 8, 13 or 30 Hz
OnSharedEdge(k, fs, n) == \E e \in {8, 16, 26, 60} : 2 * k * fs = e * n

\* C15: for each of the 5 bands (lo, hi) and every frequency bin f, the bin
\* contributes to the band's power exactly when lo <= f < hi, in _bandpower
\* and in _calculate_band_power alike, so a bin exactly on a shared band edge
\* (4, 8, 13, 30 Hz) is counted in exactly one band.
C15_HalfOpenBands ==
  /\ (fPc = "done" /\ fOut.fn = "_bandpower") =>
       /\ \A name \in DOMAIN bands :
            name \in fOut.contributes
              <=> HalfOpen(fBin, SAMPLING_RATE, nperseg, bands[name])
       /\ OnSharedEdge(fBin, SAMPLING_RATE, nperseg) =>
            Cardinality(fOut.contributes) = 1
  /\ (fPc = "done" /\ fOut.fn = "extract_band_powers") =>
       /\ \A name \in DOMAIN freq_bands :
            name \in fOut.contributes
              <=> HalfOpen(fBin, FE_SAMPLING_RATE, fe_segment_length_samples,
                           freq_bands[name])
       /\ OnSharedEdge(fBin, FE_SAMPLING_RATE, fe_segment_length_samples) =>
            Cardinality(fOut.contributes) = 1

\* C16: every subject id of the dataset load_all_subjects returns has at
\* least one row labelled 0 (relax) and one labelled 1 (focus), so in every
\* fold, once its masks are built, the test set is non-empty and holds both
\* classes.
C16_BothClassesPerSubject ==
  /\ (pc = "loaded" /\ X # None) =>
       \A s \in Range(subjects.val) :
         /\ \E i \in 1..Len(y.val) : subjects.val[i] = s /\ y.val[i] = 0
         /\ \E i \in 1..Len(y.val) : subjects.val[i] = s /\ y.val[i] = 1
  /\ pc = "train" =>
       /\ Len(test_mask) = Len(y.val)
       /\ \E i \in 1..Len(y.val) : test_mask[i] /\ y.val[i] = 0
       /\ \E i \in 1..Len(y.val) : test_mask[i] /\ y.val[i] = 1

\* the third fold of three subjects is about to train; its test set is one
\* relax and one focus window
C16_Witness ==
  /\ pc = "train"
  /\ fold = 3
  /\ unique_subjects = <<1, 2, 3>>
  /\ Masked(y.val, test_mask) = <<0, 1>>
  /\ Len(y.val) = 6

\* C17: in every fold the training set handed to EnhancedBCIClassifier.fit is
\* non-empty, also when a single subject yields usable data and the only
\* fold holds out every row of the dataset; no run ends in fit.
C17_TrainingSetNonEmpty ==
  /\ pc = "train" =>
       /\ Len(Masked(X.val, train_mask)) > 0
       /\ Len(Masked(y.val, train_mask)) > 0
  /\ ~(pc = "crashed" /\ nCreated > 0)
====
